---- MODULE Spec2Model ----
(***************************************************************************)
(* Clipping pipeline of backend.js: the activeJobs registry, the capture,  *)
(* clip, preview and upload operations with their transcoder / upload      *)
(* callbacks, the HTTP and socket handlers that start them, the events     *)
(* they send, the stalled-jobs cron, DELETE /api/clips/:id and the daily   *)
(* cleanup (Spec, SpecJobs).                                               *)
(*                                                                         *)
(* Streamer catalog: the refresh of backend.js with its per-platform       *)
(* fetchers and data files (SpecRefresh), and the merged, sorted catalog   *)
(* of the tracker, fetchAllStreamData / updateDataFile (SpecTracker).      *)
(*                                                                         *)
(* The host around them: the disk-space cron over the clips directory      *)
(* (SpecDisk), that cron and the daily cleanup beside capture and clip     *)
(* (SpecGC), authMiddleware before the /api routes (SpecApi), the SIGTERM  *)
(* and SIGINT handlers (SpecShutdown), and the viewer-count parsers        *)
(* (SpecParse).                                                            *)
(*                                                                         *)
(* Beside them: the progress callbacks of the transcoders and the upload   *)
(* with the duration of a capture (SpecProgress), the Twitch token cache   *)
(* of the tracker (SpecToken), and the shared headless browser with the    *)
(* pages opened in it (SpecBrowser).                                       *)
(*                                                                         *)
(* Time is counted in minutes.  A job object is a record; a field that     *)
(* holds a path or URL in the program is modelled by whether it is set.    *)
(* A catalog entry is modelled by the roster entry it is about.            *)
(***************************************************************************)
EXTENDS Integers, FiniteSets, Sequences, TLC

\* ---- bounds ----
MaxJobs == 2
MaxTime == 48
TickMinutes == 16
MaxRefreshes == 2
RosterSize == 2
MaxViewers == 2
MaxEpoch == 2
MaxClips == 11
MaxLen == 3
MaxSeconds == 240
MaxTokens == 3
MaxPending == 2
MaxOps == 3
MaxLaunches == 3

\* ---- program constants ----
maxClipDuration == 240
StallTimeout == 30
JobRetention == 1440
RefreshMargin == 60

JobIds == 1..MaxJobs
Vias == {"http", "socket"}

\* inputs of the requests
\* <<startTime, duration>> of the clip requests: negative start, negative and
\* zero duration, one second past maxClipDuration, exactly maxClipDuration, short
ClipRanges == {<<-1, 10>>, <<0, -5>>, <<0, 0>>, <<230, 11>>, <<230, 10>>, <<0, 10>>}
CaptureRequests == {"ok", "missing_parameters", "platform_not_found"}
CatalogLookups == {"cached", "none", "throws"}
ExitOutcomes == {"ok", "nonzero", "spawn_error"}
UploadOutcomes == {"2xx_success", "2xx_failure", "non2xx", "network_error"}

StalledReason == "Job stalled and timed out"

\* the maxDuration of a capture request, in seconds: <<>> when the body has
\* none, <<n>> for the number n.  Absent, zero, negative, under the cap, over it
Absent == <<>>
MaxDurations == {Absent, <<0>>, <<0 - 60>>, <<60>>, <<300>>}

VARIABLES
    jobs,        \* the job objects, by id (an object outlives its registry entry)
    registry,    \* keys of the activeJobs Map
    nextId,      \* generateClipId: next fresh id
    pc,          \* per job: the asynchronous work in flight for it
    previews,    \* jobs with a preview transcoder in flight
    returnedId,  \* per capture worker job: the id its handler answered with
    clipFiles,   \* ids whose clips/<id>.mp4 exists on disk
    now,         \* Date.now(), minutes
    lastOp,      \* the last handler or callback that ran, its inputs and outcome
    emitted,     \* <<id, status>> of the job events that step sent to every client
    refreshes,   \* per call of fetchAllStreamers: its fetchers and its results object
    dataFile,    \* per platform: the persisted data file
    served,      \* the last answer of GET /api/streamers
    adapterData, \* tracker: what the platform fetchers returned to fetchAllStreamData
    dataJson,    \* tracker: the records written to the output file
    clipsDir,    \* creation times of the clip files no job in hand owns, in readdir order
    tempGone,    \* ids whose capture buffer the daily cleanup has deleted
    swept,       \* the disk-space cron's last run on the clips directory as it is
    apiKey,      \* the x-api-key header of the HTTP request at the /api router
    shutdown,    \* the process: running, closing the browser, draining, exited
    parsed,      \* the last viewer-count text parsed and what the parsers returned
    reported,    \* per job: the position its transcoder or upload last reported
    twitch,      \* tracker: the cached Twitch token, the clock and the calls for it
    chromium     \* the browser variable, the browsers launched and the pages open

\* the state of the streamer catalog, which the clipping pipeline leaves alone
catalogVars == <<refreshes, dataFile, served, adapterData, dataJson>>

\* the state of the clipping pipeline, which the catalog leaves alone
jobVars == <<jobs, registry, nextId, pc, previews, returnedId, clipFiles, now, lastOp,
             emitted>>

\* the same but for the record of the step
jobVarsButLast == <<jobs, registry, nextId, pc, previews, returnedId, clipFiles, now>>

\* the state of the host around both: the temp directory, the last disk
\* sweep, the request at the router, the process and the parsers
\* the state of the services beside them: progress reports, the Twitch token
\* cache of the tracker and the headless browser
sideVars == <<reported, twitch, chromium>>

hostVars == <<clipsDir, tempGone, swept, apiKey, shutdown, parsed, reported, twitch,
              chromium>>

vars == <<jobs, registry, nextId, pc, previews, returnedId, clipFiles, now, lastOp,
          emitted, refreshes, dataFile, served, adapterData, dataJson,
          clipsDir, tempGone, swept, apiKey, shutdown, parsed, reported, twitch,
          chromium>>

\* ---- the streamer catalog: rosters, fetchers and files ----

\* platforms of backend.js (two of its four, which all follow one pattern)
Platforms == {"kick", "parti"}
\* the configured streamers of a platform
Roster == 1..RosterSize
RefreshIds == 1..MaxRefreshes
Triggers == {"cron", "http", "socket"}

\* which streamers' pages fail during a fetch: none, or the first of the roster
PageFailures == {{}, {1}}

\* what a platform's fetcher meets: it fails as a whole (browser launch, API
\* token), or it reads the pages of the streamers in scraped and fails on the
\* pages of the others
FetchOutcomes ==
    {[throws |-> TRUE, scraped |-> {}]}
    \cup {[throws |-> FALSE, scraped |-> Roster \ pages] : pages \in PageFailures}

NoFile == [exists |-> FALSE, entries |-> {}]

IdleRefresh ==
    [state |-> "idle", solo |-> TRUE,
     fetch |-> [p \in Platforms |-> "idle"],
     results |-> [p \in Platforms |-> {}],
     before |-> [p \in Platforms |-> NoFile]]

\* platforms of the tracker in the order fetchAllStreamData concatenates their
\* records (three of its six)
TrackerPlatforms == <<"vaughn", "rumble", "youtube">>
\* the place of each platform name in ascending (alphabetical) order
PlatformRank == [platform \in {"rumble", "vaughn", "youtube"} |->
                   CASE platform = "rumble" -> 1
                     [] platform = "vaughn" -> 2
                     [] OTHER -> 3]

\* maxDuration is the parameter of captureStreamSegment, which the capture
\* transcoder is spawned with and its callbacks close over (0 for a job that
\* no capture runs for)
BlankJob ==
    [status |-> "absent", progress |-> 0, error |-> "none", startTime |-> 0,
     outputFile |-> FALSE, streamUrl |-> FALSE, title |-> FALSE,
     clipFile |-> FALSE, thumbnailFile |-> FALSE, previewFrames |-> FALSE,
     uploadedUrl |-> FALSE, maxDuration |-> 0]

Op(op, id, via, start, duration, outcome) ==
    [op |-> op, id |-> id, via |-> via, start |-> start, duration |-> duration,
     outcome |-> outcome]

\* what the handlers answer when they refuse a clip or upload request
GuardRejections ==
    {"Missing required parameters", "Clip job not found", "Cannot create clip",
     "Cannot upload clip"}

\* the statuses the one-second broadcast of job_updates lists
BroadcastStatuses == {"capturing", "processing", "uploading"}

\* the io.emit calls of the step that has just set lastOp', as the job id each
\* event carries and the status it tells of: job_created (initializing),
\* job_updated (the job object), capture_complete, clip_complete,
\* upload_complete, the *_error events, the cron's job_error, and job_updates.
\* capture_error carries the handler's id, not the capturing job's.
Emitted ==
    LET o == lastOp'
    IN  CASE o.op = "capture" /\ o.outcome = "started" ->
               (IF o.via = "socket" THEN {<<o.id, "initializing">>} ELSE {})
               \cup (IF pc'[o.id + 1] = "idle" THEN {<<o.id, "error">>} ELSE {})
          [] o.op = "probe" /\ o.outcome = "not_found" ->
               {<<returnedId[o.id], "error">>}
          [] o.op = "captureExit" ->
               IF o.outcome = "ok" THEN {<<o.id, "captured">>}
               ELSE {<<returnedId[o.id], "error">>}
          [] o.op = "createClip" /\ o.outcome \notin GuardRejections ->
               (IF o.via = "socket" THEN {<<o.id, "processing">>} ELSE {})
               \cup (IF o.outcome # "spawned" THEN {<<o.id, "error">>} ELSE {})
          [] o.op = "clipExit" /\ o.outcome # "ok" -> {<<o.id, "error">>}
          [] o.op = "thumbnailExit" -> {<<o.id, "completed">>}
          [] o.op = "uploadClip" /\ o.outcome \notin GuardRejections ->
               (IF o.via = "socket" THEN {<<o.id, "uploading">>} ELSE {})
               \cup (IF o.outcome # "posted" THEN {<<o.id, "error">>} ELSE {})
          [] o.op = "uploadResponse" ->
               IF o.outcome = "2xx_success" THEN {<<o.id, "uploaded">>}
               ELSE {<<o.id, "error">>}
          [] o.op = "stallSweep" ->
               {<<j, "error">> : j \in {k \in registry : jobs'[k] # jobs[k]}}
          [] o.op = "broadcast" ->
               {<<j, jobs[j].status>> :
                   j \in {k \in registry : jobs[k].status \in BroadcastStatuses}}
          [] OTHER -> {}

\* no position reported yet for any work of the job
NoReport == [work |-> "none", at |-> 0]

\* the tracker's token cache at the start of the process: twitchAccessToken
\* null (0) and twitchTokenExpiry 0.  expiresAt is the time at which the token
\* held expires at the issuer, call the last call or response, pending the
\* token requests in flight, issued the tokens granted so far
NoToken ==
    [accessToken |-> 0, expiry |-> 0, expiresAt |-> 0, clock |-> 0, pending |-> 0,
     issued |-> 0, call |-> [op |-> "none", requested |-> FALSE, returned |-> 0]]

\* the browser at the start of the process: the variable is null (0), no
\* browser process is live, no operation runs, no page is open
NoBrowser ==
    [browser |-> 0, live |-> {}, launched |-> 0,
     stage |-> [o \in 1..MaxOps |-> [kind |-> "none", at |-> "idle"]],
     pages |-> {}]

Init ==
    /\ jobs = [j \in JobIds |-> BlankJob]
    /\ registry = {}
    /\ nextId = 1
    /\ pc = [j \in JobIds |-> "idle"]
    /\ previews = {}
    /\ returnedId = [j \in JobIds |-> 0]
    /\ clipFiles = {}
    /\ now = 0
    /\ lastOp = Op("start", 0, "none", 0, 0, "none")
    /\ emitted = {}
    /\ refreshes = [r \in RefreshIds |-> IdleRefresh]
    /\ dataFile = [p \in Platforms |-> NoFile]
    /\ served = [read |-> FALSE, files |-> [p \in Platforms |-> NoFile], during |-> {}]
    /\ adapterData = [i \in 1..Len(TrackerPlatforms) |-> <<>>]
    /\ dataJson = <<>>
    /\ clipsDir = <<>>
    /\ tempGone = {}
    /\ swept = [usagePercent |-> 0, listing |-> <<>>, deleted |-> {}]
    /\ apiKey = "none"
    /\ shutdown = "running"
    /\ parsed = [text |-> <<>>, count |-> [nan |-> FALSE, num |-> 0, den |-> 1],
                 viewers |-> [nan |-> FALSE, num |-> 0, den |-> 1]]
    /\ reported = [j \in JobIds |-> NoReport]
    /\ twitch = NoToken
    /\ chromium = NoBrowser

\* ---- time ----
Tick ==
    /\ now + TickMinutes <= MaxTime
    /\ now' = now + TickMinutes
    /\ lastOp' = Op("tick", 0, "none", 0, 0, "none")
    /\ UNCHANGED <<jobs, registry, nextId, pc, previews, returnedId, clipFiles>>
    /\ emitted' = Emitted
    /\ UNCHANGED <<catalogVars, hostVars>>

\* ---- capture ----

\* captureStreamSegment that probes with the browser whatever the catalog gave
captureStreamSegment_alwaysProbes(lookup, maxDuration) ==
    LET job == [BlankJob EXCEPT !.status = "capturing", !.progress = 0,
                                !.outputFile = TRUE, !.startTime = now,
                                !.maxDuration = maxDuration]
    IN  CASE lookup = "cached" ->
               [job |-> [job EXCEPT !.streamUrl = TRUE], pc |-> "probe"]
          [] lookup = "none" ->
               [job |-> job, pc |-> "probe"]
          [] OTHER ->
               [job |-> [job EXCEPT !.status = "error",
                                    !.error = "catalog read failed"],
                pc |-> "idle"]

\* captureStreamSegment, up to its first suspension point: mints its own id,
\* registers the job as capturing, looks the stream URL up in the persisted
\* catalog and either spawns the transcoder, starts the browser probe, or
\* fails in its catch block.  Yields the new job object and the work started.
captureStreamSegment(lookup, maxDuration) ==
    LET job == [BlankJob EXCEPT !.status = "capturing", !.progress = 0,
                                !.outputFile = TRUE, !.startTime = now,
                                !.maxDuration = maxDuration]
    IN  CASE lookup = "cached" ->
               [job |-> [job EXCEPT !.streamUrl = TRUE], pc |-> "capture"]
          [] lookup = "none" ->
               [job |-> job, pc |-> "probe"]
          [] OTHER ->
               [job |-> [job EXCEPT !.status = "error",
                                    !.error = "catalog read failed"],
                pc |-> "idle"]

Min(a, b) == IF a <= b THEN a ELSE b

\* Math.min(maxDuration || config.maxClipDuration, config.maxClipDuration):
\* || takes the default for an absent maxDuration and for 0, and keeps every
\* other number
clipDuration(maxDuration) ==
    LET given == IF maxDuration = Absent \/ maxDuration[1] = 0
                 THEN maxClipDuration
                 ELSE maxDuration[1]
    IN  Min(given, maxClipDuration)

\* POST /api/capture and socket start_capture
CaptureRequest(via, req, lookup, maxDuration) ==
    /\ req = "ok" => nextId + 1 <= MaxJobs
    /\ IF req # "ok"
       THEN /\ lastOp' = Op("capture", 0, via, 0, 0, req)
            /\ UNCHANGED <<jobs, registry, nextId, pc, returnedId>>
       ELSE LET clipId == nextId
                worker == nextId + 1
                r == captureStreamSegment(lookup, clipDuration(maxDuration))
            IN  /\ jobs' = [jobs EXCEPT
                              ![clipId] = [BlankJob EXCEPT !.status = "initializing",
                                                           !.progress = 0,
                                                           !.startTime = now],
                              ![worker] = r.job]
                /\ registry' = registry \cup {clipId, worker}
                /\ nextId' = nextId + 2
                /\ pc' = [pc EXCEPT ![worker] = r.pc]
                /\ returnedId' = [returnedId EXCEPT ![worker] = clipId]
                /\ lastOp' = Op("capture", clipId, via, 0, 0, "started")
    /\ UNCHANGED <<previews, clipFiles, now>>
    /\ emitted' = Emitted
    /\ UNCHANGED <<catalogVars, hostVars>>

ProbeDone_retries(j, found) ==
    /\ pc[j] = "probe"
    /\ IF found
       THEN /\ jobs' = [jobs EXCEPT ![j].streamUrl = TRUE]
            /\ pc' = [pc EXCEPT ![j] = "capture"]
            /\ lastOp' = Op("probe", j, "none", 0, 0, "found")
       ELSE /\ UNCHANGED <<jobs, pc>>
            /\ lastOp' = Op("probe", j, "none", 0, 0, "not_found")
    /\ UNCHANGED <<registry, nextId, previews, returnedId, clipFiles, now>>
    /\ emitted' = Emitted
    /\ UNCHANGED <<catalogVars, hostVars>>

\* getStreamUrlWithBrowser returns to captureStreamSegment
ProbeDone(j, found) ==
    /\ pc[j] = "probe"
    /\ IF found
       THEN /\ jobs' = [jobs EXCEPT ![j].streamUrl = TRUE]
            /\ pc' = [pc EXCEPT ![j] = "capture"]
            /\ lastOp' = Op("probe", j, "none", 0, 0, "found")
       ELSE /\ jobs' = [jobs EXCEPT ![j].status = "error",
                                    ![j].error = "Could not find stream URL"]
            /\ pc' = [pc EXCEPT ![j] = "idle"]
            /\ lastOp' = Op("probe", j, "none", 0, 0, "not_found")
    /\ UNCHANGED <<registry, nextId, previews, returnedId, clipFiles, now>>
    /\ emitted' = Emitted
    /\ UNCHANGED <<catalogVars, hostVars>>

\* the capture transcoder's close / error handlers.  The promise they settle
\* is returned without await, so a rejection bypasses the function's catch
\* block and reaches only the caller's .catch, which emits capture_error.
CaptureExit(j, outcome) ==
    /\ pc[j] = "capture"
    /\ jobs' = IF outcome = "ok"
               THEN [jobs EXCEPT ![j].status = "captured", ![j].progress = 100]
               ELSE jobs
    /\ pc' = [pc EXCEPT ![j] = "idle"]
    /\ lastOp' = Op("captureExit", j, "none", 0, 0, outcome)
    /\ UNCHANGED <<registry, nextId, previews, returnedId, clipFiles, now>>
    /\ emitted' = Emitted
    /\ UNCHANGED <<catalogVars, hostVars>>

\* ---- clip ----

\* createClip with the maximum compared by >= instead of >
createClip_maxExclusive(job, startTime, duration) ==
    LET fail(reason) == [job |-> [job EXCEPT !.status = "error", !.error = reason],
                         spawn |-> FALSE, outcome |-> reason]
    IN  IF job.status # "captured" THEN fail("Segment is not captured yet")
        ELSE IF startTime < 0 THEN fail("Start time cannot be negative")
        ELSE IF duration <= 0 THEN fail("Duration must be positive")
        ELSE IF startTime + duration >= maxClipDuration
             THEN fail("Clip exceeds maximum duration")
        ELSE [job |-> [job EXCEPT !.status = "processing", !.progress = 0],
              spawn |-> TRUE, outcome |-> "spawned"]

\* createClip, up to the spawn of the transcoder: the checks of its try block
\* in order (the throw of each lands in its catch block, which marks the job
\* as error), then the move to processing.  job is the registry's object for
\* the id (the handlers have checked that it exists).
createClip(job, startTime, duration) ==
    LET fail(reason) == [job |-> [job EXCEPT !.status = "error", !.error = reason],
                         spawn |-> FALSE, outcome |-> reason]
    IN  IF job.status # "captured" THEN fail("Segment is not captured yet")
        ELSE IF startTime < 0 THEN fail("Start time cannot be negative")
        ELSE IF duration <= 0 THEN fail("Duration must be positive")
        ELSE IF startTime + duration > maxClipDuration
             THEN fail("Clip exceeds maximum duration")
        ELSE [job |-> [job EXCEPT !.status = "processing", !.progress = 0],
              spawn |-> TRUE, outcome |-> "spawned"]

\* ClipGuard without the check of the job's status
ClipGuard_noStatusCheck(j, startTime, duration) ==
    IF duration = 0 THEN "Missing required parameters"
    ELSE IF j \notin registry THEN "Clip job not found"
    ELSE "pass"

\* the guards shared by POST /api/clip and socket create_clip; "pass" when the
\* handler goes on to createClip
ClipGuard(j, startTime, duration) ==
    IF duration = 0 THEN "Missing required parameters"
    ELSE IF j \notin registry THEN "Clip job not found"
    ELSE IF jobs[j].status # "captured" THEN "Cannot create clip"
    ELSE "pass"

\* POST /api/clip
HttpClip(j, startTime, duration, title) ==
    LET g == ClipGuard(j, startTime, duration)
        titled == [jobs[j] EXCEPT !.title = @ \/ title]
        r == createClip(titled, startTime, duration)
    IN  /\ IF g # "pass"
           THEN /\ lastOp' = Op("createClip", j, "http", 0, 0, g)
                /\ UNCHANGED <<jobs, pc>>
           ELSE /\ jobs' = [jobs EXCEPT ![j] = r.job]
                /\ pc' = IF r.spawn THEN [pc EXCEPT ![j] = "clip"] ELSE pc
                /\ lastOp' = Op("createClip", j, "http", startTime, duration, r.outcome)
        /\ UNCHANGED <<registry, nextId, previews, returnedId, clipFiles, now>>
        /\ emitted' = Emitted
        /\ UNCHANGED <<catalogVars, hostVars>>

\* socket create_clip: moves the job to processing itself, then calls createClip
SocketClip(j, startTime, duration, title) ==
    LET g == ClipGuard(j, startTime, duration)
        titled == [jobs[j] EXCEPT !.title = @ \/ title]
        marked == [titled EXCEPT !.status = "processing", !.progress = 0]
        r == createClip(marked, startTime, duration)
    IN  /\ IF g # "pass"
           THEN /\ lastOp' = Op("createClip", j, "socket", 0, 0, g)
                /\ UNCHANGED <<jobs, pc>>
           ELSE /\ jobs' = [jobs EXCEPT ![j] = r.job]
                /\ pc' = IF r.spawn THEN [pc EXCEPT ![j] = "clip"] ELSE pc
                /\ lastOp' = Op("createClip", j, "socket", startTime, duration, r.outcome)
        /\ UNCHANGED <<registry, nextId, previews, returnedId, clipFiles, now>>
        /\ emitted' = Emitted
        /\ UNCHANGED <<catalogVars, hostVars>>

\* the clip transcoder's close / error handlers: on code 0 the thumbnail
\* transcoder is started; a rejection bypasses createClip's catch block (the
\* promise is returned without await).  A failed run may leave a partial file.
ClipExit(j, outcome, partial) ==
    /\ pc[j] = "clip"
    /\ outcome = "spawn_error" => ~partial
    /\ outcome = "ok" => partial
    /\ pc' = [pc EXCEPT ![j] = IF outcome = "ok" THEN "thumbnail" ELSE "idle"]
    /\ clipFiles' = IF partial THEN clipFiles \cup {j} ELSE clipFiles
    /\ lastOp' = Op("clipExit", j, "none", 0, 0, outcome)
    /\ UNCHANGED <<jobs, registry, nextId, previews, returnedId, now>>
    /\ emitted' = Emitted
    /\ UNCHANGED <<catalogVars, hostVars>>

ThumbnailExit_failsJob(j, outcome) ==
    /\ pc[j] = "thumbnail"
    /\ jobs' = IF outcome = "ok"
               THEN [jobs EXCEPT ![j].status = "completed", ![j].progress = 100,
                                 ![j].clipFile = TRUE, ![j].thumbnailFile = TRUE]
               ELSE [jobs EXCEPT ![j].status = "error",
                                 ![j].error = "FFmpeg exited"]
    /\ registry' = registry \cup {j}
    /\ pc' = [pc EXCEPT ![j] = "idle"]
    /\ lastOp' = Op("thumbnailExit", j, "none", 0, 0, outcome)
    /\ UNCHANGED <<nextId, previews, returnedId, clipFiles, now>>
    /\ emitted' = Emitted
    /\ UNCHANGED <<catalogVars, hostVars>>

\* createThumbnail settles: both the .then and the .catch branch complete the
\* job through the job object createClip holds, and store it under its id
ThumbnailExit(j, outcome) ==
    /\ pc[j] = "thumbnail"
    /\ jobs' = [jobs EXCEPT ![j].status = "completed", ![j].progress = 100,
                            ![j].clipFile = TRUE,
                            ![j].thumbnailFile = @ \/ (outcome = "ok")]
    /\ registry' = registry \cup {j}
    /\ pc' = [pc EXCEPT ![j] = "idle"]
    /\ lastOp' = Op("thumbnailExit", j, "none", 0, 0, outcome)
    /\ UNCHANGED <<nextId, previews, returnedId, clipFiles, now>>
    /\ emitted' = Emitted
    /\ UNCHANGED <<catalogVars, hostVars>>

\* ---- preview ----

\* POST /api/preview and socket generate_preview, with generatePreviewFrames
\* up to the spawn of its transcoder
PreviewRequest(j, via) ==
    /\ j \notin previews
    /\ LET g == IF j \notin registry THEN "Clip job not found"
                ELSE IF jobs[j].status # "captured" THEN "Cannot generate preview"
                ELSE "pass"
       IN  /\ previews' = IF g = "pass" THEN previews \cup {j} ELSE previews
           /\ lastOp' = Op("preview", j, via, 0, 0, IF g = "pass" THEN "spawned" ELSE g)
    /\ UNCHANGED <<jobs, registry, nextId, pc, returnedId, clipFiles, now>>
    /\ emitted' = Emitted
    /\ UNCHANGED <<catalogVars, hostVars>>

PreviewExit_failsJob(j, outcome) ==
    /\ j \in previews
    /\ previews' = previews \ {j}
    /\ IF outcome = "ok"
       THEN /\ jobs' = [jobs EXCEPT ![j].previewFrames = TRUE]
            /\ registry' = registry \cup {j}
       ELSE /\ jobs' = [jobs EXCEPT ![j].status = "error"]
            /\ UNCHANGED registry
    /\ lastOp' = Op("previewExit", j, "none", 0, 0, outcome)
    /\ UNCHANGED <<nextId, pc, returnedId, clipFiles, now>>
    /\ emitted' = Emitted
    /\ UNCHANGED <<catalogVars, hostVars>>

\* the preview transcoder's close / error handlers
PreviewExit(j, outcome) ==
    /\ j \in previews
    /\ previews' = previews \ {j}
    /\ IF outcome = "ok"
       THEN /\ jobs' = [jobs EXCEPT ![j].previewFrames = TRUE]
            /\ registry' = registry \cup {j}
       ELSE UNCHANGED <<jobs, registry>>
    /\ lastOp' = Op("previewExit", j, "none", 0, 0, outcome)
    /\ UNCHANGED <<nextId, pc, returnedId, clipFiles, now>>
    /\ emitted' = Emitted
    /\ UNCHANGED <<catalogVars, hostVars>>

\* ---- upload ----

\* uploadClip, up to the POST to the upload host
uploadClip(job) ==
    IF ~job.clipFile \/ job.status # "completed"
    THEN [job |-> [job EXCEPT !.status = "error",
                              !.error = "Clip is not ready for upload"],
          post |-> FALSE, outcome |-> "Clip is not ready for upload"]
    ELSE [job |-> [job EXCEPT !.status = "uploading", !.progress = 0],
          post |-> TRUE, outcome |-> "posted"]

\* UploadGuard that lets a failed job through
UploadGuard_allowsError(j) ==
    IF j \notin registry THEN "Clip job not found"
    ELSE IF jobs[j].status \notin {"completed", "error"} THEN "Cannot upload clip"
    ELSE "pass"

\* the guards shared by POST /api/upload and socket upload_clip
UploadGuard(j) ==
    IF j \notin registry THEN "Clip job not found"
    ELSE IF jobs[j].status # "completed" THEN "Cannot upload clip"
    ELSE "pass"

\* POST /api/upload
HttpUpload(j) ==
    LET g == UploadGuard(j)
        r == uploadClip(jobs[j])
    IN  /\ IF g # "pass"
           THEN /\ lastOp' = Op("uploadClip", j, "http", 0, 0, g)
                /\ UNCHANGED <<jobs, pc>>
           ELSE /\ jobs' = [jobs EXCEPT ![j] = r.job]
                /\ pc' = IF r.post THEN [pc EXCEPT ![j] = "upload"] ELSE pc
                /\ lastOp' = Op("uploadClip", j, "http", 0, 0, r.outcome)
        /\ UNCHANGED <<registry, nextId, previews, returnedId, clipFiles, now>>
        /\ emitted' = Emitted
        /\ UNCHANGED <<catalogVars, hostVars>>

\* socket upload_clip: moves the job to uploading itself, then calls uploadClip
SocketUpload(j) ==
    LET g == UploadGuard(j)
        marked == [jobs[j] EXCEPT !.status = "uploading", !.progress = 0]
        r == uploadClip(marked)
    IN  /\ IF g # "pass"
           THEN /\ lastOp' = Op("uploadClip", j, "socket", 0, 0, g)
                /\ UNCHANGED <<jobs, pc>>
           ELSE /\ jobs' = [jobs EXCEPT ![j] = r.job]
                /\ pc' = IF r.post THEN [pc EXCEPT ![j] = "upload"] ELSE pc
                /\ lastOp' = Op("uploadClip", j, "socket", 0, 0, r.outcome)
        /\ UNCHANGED <<registry, nextId, previews, returnedId, clipFiles, now>>
        /\ emitted' = Emitted
        /\ UNCHANGED <<catalogVars, hostVars>>

\* UploadSettled without the check of response.data.success
UploadSettled_anyReply(job, response) ==
    IF response \in {"2xx_success", "2xx_failure"}
    THEN [job EXCEPT !.status = "uploaded", !.progress = 100, !.uploadedUrl = TRUE]
    ELSE [job EXCEPT !.status = "error", !.error = "Request failed"]

\* what the awaited axios.post and the check of its response make of the job:
\* success stores the URL through the job object uploadClip holds; a rejected
\* request (non-2xx, network) or success=false throws into the catch block
UploadSettled(job, response) ==
    IF response = "2xx_success"
    THEN [job EXCEPT !.status = "uploaded", !.progress = 100, !.uploadedUrl = TRUE]
    ELSE [job EXCEPT !.status = "error",
                     !.error = IF response = "2xx_failure" THEN "Upload failed"
                               ELSE "Request failed"]

\* the upload host answers, or the request fails
UploadResponse(j, response) ==
    /\ pc[j] = "upload"
    /\ pc' = [pc EXCEPT ![j] = "idle"]
    /\ IF response = "2xx_success"
       THEN /\ jobs' = [jobs EXCEPT ![j] = UploadSettled(jobs[j], response)]
            /\ registry' = registry \cup {j}
       ELSE /\ jobs' = IF j \in registry
                       THEN [jobs EXCEPT ![j] = UploadSettled(jobs[j], response)]
                       ELSE jobs
            /\ UNCHANGED registry
    /\ lastOp' = Op("uploadResponse", j, "none", 0, 0, response)
    /\ UNCHANGED <<nextId, previews, returnedId, clipFiles, now>>
    /\ emitted' = Emitted
    /\ UNCHANGED <<catalogVars, hostVars>>

\* ---- stalled-jobs cron ----

\* the cron's list without uploading
SweptStatuses_noUploading == {"initializing", "capturing", "processing"}

\* the statuses the cron treats as active
SweptStatuses == {"initializing", "capturing", "processing", "uploading"}

IsStalled(job) ==
    /\ job.status \in SweptStatuses
    /\ now - job.startTime > StallTimeout

StallSweep ==
    /\ jobs' = [j \in JobIds |->
                  IF j \in registry /\ IsStalled(jobs[j])
                  THEN [jobs[j] EXCEPT !.status = "error", !.error = StalledReason]
                  ELSE jobs[j]]
    /\ lastOp' = Op("stallSweep", 0, "none", 0, 0,
                    IF \E j \in registry : IsStalled(jobs[j]) THEN "job_error" ELSE "none")
    /\ UNCHANGED <<registry, nextId, pc, previews, returnedId, clipFiles, now>>
    /\ emitted' = Emitted
    /\ UNCHANGED <<catalogVars, hostVars>>

\* ---- job events ----

\* the setInterval callback: job_updates with the jobs that are capturing,
\* processing or uploading, when there is one
Broadcast ==
    /\ \E j \in registry : jobs[j].status \in BroadcastStatuses
    /\ lastOp' = Op("broadcast", 0, "none", 0, 0, "job_updates")
    /\ emitted' = Emitted
    /\ UNCHANGED <<catalogVars, hostVars>>
    /\ UNCHANGED <<jobs, registry, nextId, pc, previews, returnedId, clipFiles, now>>

\* ---- removal of jobs ----

\* DELETE /api/clips/:id
DeleteClip(j) ==
    /\ IF j \notin clipFiles
       THEN /\ lastOp' = Op("deleteClip", j, "http", 0, 0, "Clip not found")
            /\ UNCHANGED <<registry, clipFiles>>
       ELSE /\ clipFiles' = clipFiles \ {j}
            /\ registry' = registry \ {j}
            /\ lastOp' = Op("deleteClip", j, "http", 0, 0, "Clip deleted successfully")
    /\ emitted' = Emitted
    /\ UNCHANGED <<catalogVars, hostVars>>
    /\ UNCHANGED <<jobs, nextId, pc, previews, returnedId, now>>

\* the cleanup's list without error
RemovableStatuses_noError == {"completed", "uploaded"}

\* the statuses the daily cleanup removes
RemovableStatuses == {"completed", "error", "uploaded"}

\* the daily cleanup cron, its pass over activeJobs (within MaxTime minutes of
\* the start no job is older than JobRetention, and the pass removes none)
DailyJobCleanup ==
    LET old == {j \in registry : /\ jobs[j].status \in RemovableStatuses
                                 /\ now - jobs[j].startTime > JobRetention}
    IN  /\ registry' = registry \ old
        /\ lastOp' = Op("dailyCleanup", 0, "none", 0, 0,
                        IF old = {} THEN "none" ELSE "removed")
        /\ emitted' = Emitted
        /\ UNCHANGED <<catalogVars, hostVars>>
        /\ UNCHANGED <<jobs, nextId, pc, previews, returnedId, clipFiles, now>>

Next ==
    \/ Tick
    \/ \E via \in Vias, req \in CaptureRequests, lookup \in CatalogLookups :
          CaptureRequest(via, req, lookup, Absent)
    \/ \E j \in JobIds, found \in BOOLEAN : ProbeDone(j, found)
    \/ \E j \in JobIds, outcome \in ExitOutcomes : CaptureExit(j, outcome)
    \/ \E j \in JobIds, r \in ClipRanges, title \in BOOLEAN :
          \/ HttpClip(j, r[1], r[2], title)
          \/ SocketClip(j, r[1], r[2], title)
    \/ \E j \in JobIds, outcome \in ExitOutcomes, partial \in BOOLEAN :
          ClipExit(j, outcome, partial)
    \/ \E j \in JobIds, outcome \in ExitOutcomes : ThumbnailExit(j, outcome)
    \/ \E j \in JobIds, via \in Vias : PreviewRequest(j, via)
    \/ \E j \in JobIds, outcome \in ExitOutcomes : PreviewExit(j, outcome)
    \/ \E j \in JobIds : HttpUpload(j) \/ SocketUpload(j)
    \/ \E j \in JobIds, response \in UploadOutcomes : UploadResponse(j, response)
    \/ StallSweep

Spec == Init /\ [][Next]_vars

\* the pipeline together with the job_updates broadcast and the two ways a
\* job leaves the registry
NextJobs ==
    \/ Next
    \/ Broadcast
    \/ \E j \in JobIds : DeleteClip(j)
    \/ DailyJobCleanup

SpecJobs == Init /\ [][NextJobs]_vars

\* ---- properties ----

RangeErrors ==
    {"Start time cannot be negative", "Duration must be positive",
     "Clip exceeds maximum duration"}

\* the transition graph of the job states
StatusEdges ==
    {<<"initializing", "resolving">>, <<"resolving", "capturing">>,
     <<"capturing", "captured">>, <<"captured", "processing">>,
     <<"processing", "completed">>, <<"completed", "uploading">>,
     <<"uploading", "uploaded">>}
    \cup {<<s, "error">> : s \in {"initializing", "resolving", "capturing", "captured",
                                 "processing", "completed", "uploading"}}

\* C1: every change of the status of a job in the registry is an edge of the
\* graph initializing -> resolving -> capturing -> captured -> processing ->
\* completed -> uploading -> uploaded, or an edge from a non-terminal state to
\* error.
C1_StatusChangesAreEdges ==
    [][\A j \in registry :
          jobs'[j].status # jobs[j].status
             => <<jobs[j].status, jobs'[j].status>> \in StatusEdges]_vars

\* C2: once a job's status is error, the job never changes again: no later
\* transcoder exit or upload response mutates it.
C2_ErrorIsFinal ==
    [][\A j \in registry : jobs[j].status = "error" => jobs'[j] = jobs[j]]_vars

\* C3: when the capture transcoder exits with code 0, the job whose id the
\* handler returned to the client has status captured.
C3_ReturnedJobIsCaptured ==
    (lastOp.op = "captureExit" /\ lastOp.outcome = "ok")
       => jobs[returnedId[lastOp.id]].status = "captured"

\* C4: when the capture transcoder exits, the capturing job is captured on code
\* 0, and is in error with a reason on a nonzero code or a spawn failure.
C4_CaptureExitSetsStatus ==
    lastOp.op = "captureExit"
       => IF lastOp.outcome = "ok"
          THEN jobs[lastOp.id].status = "captured"
          ELSE /\ jobs[lastOp.id].status = "error"
               /\ jobs[lastOp.id].error # "none"

\* C5: when the clip transcoder exits with a nonzero code or fails to spawn,
\* the job is in error with a reason, not left in processing.
C5_ClipFailureSetsError ==
    (lastOp.op = "clipExit" /\ lastOp.outcome # "ok")
       => /\ jobs[lastOp.id].status = "error"
          /\ jobs[lastOp.id].error # "none"

\* C6 as stated: a stall-sweep tick moves every job that is older than 30
\* minutes and in initializing, resolving, capturing, captured, processing or
\* uploading to error with the stalled reason.
C6_SweepFailsEveryNonTerminal ==
    [][lastOp'.op = "stallSweep"
         => \A j \in registry :
               ( /\ jobs[j].status \in {"initializing", "resolving", "capturing",
                                        "captured", "processing", "uploading"}
                 /\ now - jobs[j].startTime > 30 )
                  => /\ jobs'[j].status = "error"
                     /\ jobs'[j].error = StalledReason]_vars

\* C6 amended: a stall-sweep tick moves every job that is older than 30 minutes
\* and in initializing, capturing, processing or uploading to error with the
\* stalled reason, and leaves every other job as it was (a captured job is not
\* swept).
C6_SweepFailsEveryActive ==
    [][lastOp'.op = "stallSweep"
         => \A j \in registry :
               IF /\ jobs[j].status \in {"initializing", "capturing", "processing",
                                         "uploading"}
                  /\ now - jobs[j].startTime > 30
               THEN /\ jobs'[j].status = "error"
                    /\ jobs'[j].error = StalledReason
               ELSE jobs'[j] = jobs[j]]_vars

\* a sweep has just failed the stalled capture worker job
C6_Witness ==
    /\ lastOp.op = "stallSweep"
    /\ lastOp.outcome = "job_error"
    /\ \E j \in registry : /\ jobs[j].outputFile
                           /\ jobs[j].status = "error"
                           /\ jobs[j].error = StalledReason
                           /\ now - jobs[j].startTime > 30

\* C7: createClip on a captured job is rejected with a range error exactly when
\* start < 0 or duration <= 0 or start + duration > maxClipDuration; a rejected
\* call spawns no transcoder, an accepted one spawns it and the job is in
\* processing.
C7_RangeValidation ==
    (lastOp.op = "createClip" /\ lastOp.via = "http"
        /\ lastOp.outcome \notin GuardRejections)
       => LET invalid == \/ lastOp.start < 0
                         \/ lastOp.duration <= 0
                         \/ lastOp.start + lastOp.duration > 240
          IN  /\ lastOp.outcome \in RangeErrors <=> invalid
              /\ invalid => pc[lastOp.id] # "clip"
              /\ ~invalid => /\ pc[lastOp.id] = "clip"
                             /\ jobs[lastOp.id].status = "processing"

\* createClip has just rejected a range that ends one second past the maximum
C7_Witness ==
    /\ lastOp.op = "createClip"
    /\ lastOp.via = "http"
    /\ lastOp.start + lastOp.duration = 241
    /\ lastOp.outcome = "Clip exceeds maximum duration"
    /\ pc[lastOp.id] = "idle"

\* C8: a socket create_clip for a captured job with a valid range leaves the
\* job in processing with the transcoder spawned, as POST /api/clip does.
C8_SocketClipStartsTranscoder ==
    (lastOp.op = "createClip" /\ lastOp.via = "socket"
        /\ lastOp.outcome \notin GuardRejections
        /\ lastOp.start >= 0 /\ lastOp.duration > 0
        /\ lastOp.start + lastOp.duration <= 240)
       => /\ jobs[lastOp.id].status = "processing"
          /\ pc[lastOp.id] = "clip"

\* C9: a socket upload_clip for a completed job leaves the job in uploading
\* with the clip being POSTed, as POST /api/upload does.
C9_SocketUploadStartsPost ==
    (lastOp.op = "uploadClip" /\ lastOp.via = "socket"
        /\ lastOp.outcome \notin GuardRejections)
       => /\ jobs[lastOp.id].status = "uploading"
          /\ pc[lastOp.id] = "upload"

\* C10: when an upload settles, the job is uploaded with its URL stored exactly
\* when the host answered 2xx with success=true; on every other outcome it is
\* in error with a reason; the step deletes no clip file.
C10_UploadOutcome ==
    [][\A j \in registry :
          (pc[j] = "upload" /\ pc'[j] # "upload")
             => /\ (jobs'[j].status = "uploaded" /\ jobs'[j].uploadedUrl)
                      <=> lastOp'.outcome = "2xx_success"
                /\ lastOp'.outcome # "2xx_success"
                      => /\ jobs'[j].status = "error"
                         /\ jobs'[j].error # "none"
                /\ clipFiles' = clipFiles]_vars

\* the host has just answered success=false: the job is in error, the clip
\* file is still on disk
C10_Witness ==
    /\ lastOp.op = "uploadResponse"
    /\ lastOp.outcome = "2xx_failure"
    /\ jobs[lastOp.id].status = "error"
    /\ jobs[lastOp.id].error = "Upload failed"
    /\ ~jobs[lastOp.id].uploadedUrl
    /\ lastOp.id \in clipFiles

UploadFailures == {"Upload failed", "Request failed"}

\* C11 as stated: after an upload has failed, a POST /api/upload for the same
\* job is accepted and starts a new upload.
C11_SecondUploadAccepted ==
    [][\A j \in registry :
          ( /\ jobs[j].status = "error" /\ jobs[j].error \in UploadFailures
            /\ lastOp'.op = "uploadClip" /\ lastOp'.via = "http" /\ lastOp'.id = j )
             => /\ jobs'[j].status = "uploading"
                /\ pc'[j] = "upload"]_vars

\* C11 amended: a failed upload leaves no upload in flight (no automatic
\* retry), and a later POST /api/upload for the same job is rejected with
\* "Cannot upload clip": it starts no upload and leaves the job as it was.
C11_SecondUploadRejected ==
    [][\A j \in registry :
          /\ (lastOp'.op = "uploadResponse" /\ lastOp'.id = j
                 /\ lastOp'.outcome # "2xx_success")
                => pc'[j] = "idle"
          /\ ( /\ jobs[j].status = "error" /\ jobs[j].error \in UploadFailures
               /\ lastOp'.op = "uploadClip" /\ lastOp'.via = "http" /\ lastOp'.id = j )
                => /\ lastOp'.outcome = "Cannot upload clip"
                   /\ jobs'[j] = jobs[j]
                   /\ pc'[j] = pc[j]]_vars

\* a POST /api/upload has just been rejected for a job whose upload had failed
C11_Witness ==
    /\ lastOp.op = "uploadClip"
    /\ lastOp.via = "http"
    /\ lastOp.outcome = "Cannot upload clip"
    /\ lastOp.id \in registry
    /\ jobs[lastOp.id].status = "error"
    /\ jobs[lastOp.id].error \in UploadFailures
    /\ pc[lastOp.id] = "idle"

\* C12: once one POST /api/clip (POST /api/upload) has moved the job to
\* processing (uploading) and started the transcoder (the upload), every
\* further POST for the same transition is rejected by the handler and changes
\* neither the job nor the work in flight.
C12_OneRequestWins ==
    [][\A j \in registry :
          /\ ( /\ pc[j] = "clip"
               /\ lastOp'.op = "createClip" /\ lastOp'.via = "http" /\ lastOp'.id = j )
                => /\ lastOp'.outcome \in GuardRejections
                   /\ jobs'[j] = jobs[j]
                   /\ pc'[j] = "clip"
          /\ ( /\ pc[j] = "upload"
               /\ lastOp'.op = "uploadClip" /\ lastOp'.via = "http" /\ lastOp'.id = j )
                => /\ lastOp'.outcome \in GuardRejections
                   /\ jobs'[j] = jobs[j]
                   /\ pc'[j] = "upload"]_vars

\* a second POST /api/clip has just been rejected while the transcoder started
\* by the first is running
C12_Witness ==
    /\ lastOp.op = "createClip"
    /\ lastOp.via = "http"
    /\ lastOp.outcome = "Cannot create clip"
    /\ pc[lastOp.id] = "clip"
    /\ jobs[lastOp.id].status = "processing"

\* C19: every status a job of the registry takes is published to all
\* subscribers: the step that gives the job the status sends an event carrying
\* the job's id and that status, or the status is one the one-second
\* job_updates broadcast lists.
C19_EveryStatusPublished ==
    [][\A j \in registry' :
          (j \notin registry \/ jobs'[j].status # jobs[j].status)
             => \/ <<j, jobs'[j].status>> \in emitted'
                \/ jobs'[j].status \in BroadcastStatuses]_vars

\* C20: a job leaves the registry only in a terminal status (completed,
\* uploaded or error); a job in processing or uploading is never removed.
C20_OnlyTerminalRemoved ==
    [][\A j \in registry :
          j \notin registry' => jobs[j].status \in {"completed", "uploaded", "error"}]_vars

\* ---- catalog refresh of backend.js ----

\* fetchKickStreamers / fetchPartiStreamers (fetchYoutubeStreamers and
\* fetchTwitchStreamers likewise): a streamer whose page fails is skipped by
\* continue; the list of the others is written to the platform's data file and
\* returned.  A failure of the whole fetch is caught inside the function, which
\* then returns an empty list without touching the file: it never rejects.
fetchStreamers(outcome) ==
    IF outcome.throws
    THEN [value |-> {}, rejected |-> FALSE, written |-> FALSE]
    ELSE [value |-> outcome.scraped, rejected |-> FALSE, written |-> TRUE]

\* the cron, POST /api/refresh and socket refresh_streamers: each calls
\* fetchAllStreamers, which starts the fetcher of every platform.  before
\* notes the files as they are at that moment, solo whether the call has run
\* without another one beside it.
StartRefresh(trigger) ==
    LET r == Cardinality({x \in RefreshIds : refreshes[x].state # "idle"}) + 1
        running == {x \in RefreshIds : refreshes[x].state = "running"}
    IN  /\ r <= MaxRefreshes
        /\ refreshes' = [x \in RefreshIds |->
                           IF x = r
                           THEN [IdleRefresh EXCEPT
                                   !.state = "running", !.solo = (running = {}),
                                   !.fetch = [p \in Platforms |-> "running"],
                                   !.before = dataFile]
                           ELSE IF x \in running
                           THEN [refreshes[x] EXCEPT !.solo = FALSE]
                           ELSE refreshes[x]]
        /\ UNCHANGED <<dataFile, served, adapterData, dataJson>>
        /\ UNCHANGED <<jobVars, hostVars>>

\* a platform's fetcher settles inside fetchAllStreamers: .then stores its
\* value in results; .catch would read the persisted file instead
FetchSettled(r, p, outcome) ==
    LET f == fetchStreamers(outcome)
        value == IF ~f.rejected THEN f.value
                 ELSE IF dataFile[p].exists THEN dataFile[p].entries
                 ELSE refreshes[r].results[p]
    IN  /\ refreshes[r].state = "running"
        /\ refreshes[r].fetch[p] = "running"
        /\ refreshes' = [refreshes EXCEPT
                           ![r].fetch[p] = IF outcome.throws THEN "failed" ELSE "ok",
                           ![r].results[p] = value]
        /\ dataFile' = IF f.written
                       THEN [dataFile EXCEPT ![p] = [exists |-> TRUE,
                                                     entries |-> f.value]]
                       ELSE dataFile
        /\ UNCHANGED <<served, adapterData, dataJson>>
        /\ UNCHANGED <<jobVars, hostVars>>

\* Promise.all of fetchAllStreamers resolves: results is returned to the
\* caller, which drops it
RefreshDone(r) ==
    /\ refreshes[r].state = "running"
    /\ \A p \in Platforms : refreshes[r].fetch[p] # "running"
    /\ refreshes' = [refreshes EXCEPT ![r] = [IdleRefresh EXCEPT !.state = "done"]]
    /\ UNCHANGED <<dataFile, served, adapterData, dataJson>>
    /\ UNCHANGED <<jobVars, hostVars>>

\* GET /api/streamers: reads the data file of every platform
GetStreamers ==
    /\ served' = [read |-> TRUE, files |-> dataFile,
                  during |-> {r \in RefreshIds : refreshes[r].state = "running"}]
    /\ UNCHANGED <<refreshes, dataFile, adapterData, dataJson>>
    /\ UNCHANGED <<jobVars, hostVars>>

NextRefresh ==
    \/ \E trigger \in Triggers : StartRefresh(trigger)
    \/ \E r \in RefreshIds, p \in Platforms, outcome \in FetchOutcomes :
          FetchSettled(r, p, outcome)
    \/ \E r \in RefreshIds : RefreshDone(r)
    \/ GetStreamers

SpecRefresh == Init /\ [][NextRefresh]_vars

\* refresh r, which has run without another refresh beside it, returns in
\* this step
Returns(r) ==
    /\ refreshes[r].state = "running"
    /\ refreshes[r].solo
    /\ refreshes'[r].state = "done"

\* C13: at most one catalog refresh is running at any time; a trigger that
\* arrives while a refresh is running starts no second one.
C13_OneRefreshAtATime ==
    Cardinality({r \in RefreshIds : refreshes[r].state = "running"}) <= 1

\* C16: when a refresh returns in which a platform's fetch failed and another
\* platform's succeeded, its results hold for the failed platform the entries
\* of that platform's data file as persisted before the refresh.
C16_FailedPlatformKeepsEntries ==
    [][\A r \in RefreshIds : \A p \in Platforms :
          ( /\ Returns(r)
            /\ refreshes[r].fetch[p] = "failed"
            /\ \E q \in Platforms : refreshes[r].fetch[q] = "ok"
            /\ refreshes[r].before[p].exists )
             => refreshes[r].results[p] = refreshes[r].before[p].entries]_vars

\* C17: when a refresh returns, a platform whose fetch succeeded has exactly
\* the streamers of its roster in the results, those whose page failed
\* included.
C17_OneRecordPerRosterEntry ==
    [][\A r \in RefreshIds : \A p \in Platforms :
          (Returns(r) /\ refreshes[r].fetch[p] = "ok")
             => refreshes[r].results[p] = Roster]_vars

\* C18: an answer of GET /api/streamers given while one refresh was running
\* is the complete set of files from before that refresh or the complete set
\* from after it.
C18_ReaderSeesOldOrNew ==
    [][\A r \in RefreshIds :
          (Returns(r) /\ served.read /\ served.during = {r})
             => served.files \in {refreshes[r].before, dataFile}]_vars

\* ---- merged catalog of the tracker (fetchAllStreamData) ----

\* Date.now() in seconds when the records are processed: later than every
\* last broadcast
NowEpoch == MaxEpoch + 1

\* the record a platform's fetcher builds for its streamer.  viewer_count is
\* the public viewer field (viewer_count, or viewers), 0 when the record has
\* none: the YouTube scraper stores its count in _viewers only.
AdapterRecord(platform, username, online, viewers, epoch) ==
    IF online
    THEN [platform |-> platform, username |-> username, _isOnline |-> TRUE,
          viewer_count |-> IF platform = "youtube" THEN 0 ELSE viewers,
          _viewers |-> viewers, _lastBroadcastEpoch |-> NowEpoch]
    ELSE [platform |-> platform, username |-> username, _isOnline |-> FALSE,
          viewer_count |-> 0, _viewers |-> 0, _lastBroadcastEpoch |-> epoch]

\* what a platform's fetcher can return for its one configured streamer:
\* nothing (the fetch failed), a live record, or an offline record
PlatformData(platform) ==
    {<<>>}
    \cup {<<AdapterRecord(platform, 1, TRUE, viewers, 0)>> : viewers \in 0..MaxViewers}
    \cup {<<AdapterRecord(platform, 1, FALSE, 0, epoch)>> : epoch \in 0..MaxEpoch}

AdapterResults ==
    {<<first, second, third>> :
        first \in PlatformData(TrackerPlatforms[1]),
        second \in PlatformData(TrackerPlatforms[2]),
        third \in PlatformData(TrackerPlatforms[3])}

\* the map step of fetchAllStreamData: the sort keys are computed again from
\* the public fields and replace those of the fetcher
processEntry(entry) ==
    LET isOnline == entry._isOnline
        viewers == IF isOnline THEN entry.viewer_count ELSE 0
        lastBroadcastEpoch == IF isOnline THEN NowEpoch
                              ELSE entry._lastBroadcastEpoch
    IN  [entry EXCEPT !._isOnline = isOnline, !._viewers = viewers,
                      !._lastBroadcastEpoch = lastBroadcastEpoch]

\* the comparator handed to sort
sortComparator(a, b) ==
    IF a._isOnline /\ ~b._isOnline THEN -1
    ELSE IF ~a._isOnline /\ b._isOnline THEN 1
    ELSE IF a._isOnline /\ b._isOnline THEN b._viewers - a._viewers
    ELSE b._lastBroadcastEpoch - a._lastBroadcastEpoch

\* InsertSorted that puts x in front of the elements it ties with
InsertSorted_beforeTies(sorted, x) ==
    LET after == {i \in 1..Len(sorted) : sortComparator(sorted[i], x) >= 0}
        at == IF after = {} THEN Len(sorted) + 1
              ELSE CHOOSE i \in after : \A k \in after : i <= k
    IN  SubSeq(sorted, 1, at - 1) \o <<x>> \o SubSeq(sorted, at, Len(sorted))

\* x put into the sorted sequence behind every element that does not have to
\* follow it
InsertSorted(sorted, x) ==
    LET after == {i \in 1..Len(sorted) : sortComparator(sorted[i], x) > 0}
        at == IF after = {} THEN Len(sorted) + 1
              ELSE CHOOSE i \in after : \A k \in after : i <= k
    IN  SubSeq(sorted, 1, at - 1) \o <<x>> \o SubSeq(sorted, at, Len(sorted))

RECURSIVE SortRecords(_)
\* Array.prototype.sort, which is stable
SortRecords(records) ==
    IF records = <<>> THEN <<>>
    ELSE InsertSorted(SortRecords(SubSeq(records, 1, Len(records) - 1)),
                      records[Len(records)])

\* fetchAllStreamData: the platforms' records concatenated in the fixed order,
\* processed and sorted
fetchAllStreamData(data) ==
    LET allData == data[1] \o data[2] \o data[3]
    IN  SortRecords([i \in 1..Len(allData) |-> processEntry(allData[i])])

\* updateDataFile, run by the one-minute cron: the fetchers have returned
\* data; the sorted records are written to the output file
updateDataFile(data) ==
    /\ adapterData' = data
    /\ dataJson' = fetchAllStreamData(data)
    /\ UNCHANGED <<refreshes, dataFile, served>>
    /\ UNCHANGED <<jobVars, hostVars>>

NextTracker == \E data \in AdapterResults : updateDataFile(data)

SpecTracker == Init /\ [][NextTracker]_vars

\* the viewer count the fetcher reported for the streamer of a written record
Reported(record) ==
    LET i == CHOOSE k \in 1..Len(TrackerPlatforms) : TrackerPlatforms[k] = record.platform
    IN  adapterData[i][1]._viewers

\* C14: in the written catalog live records come before records that are not
\* live; among live records the viewer counts the fetchers reported do not
\* increase, whatever the platform; among the others the last-broadcast times
\* do not increase, an unknown time counting as 0.
C14_CatalogOrder ==
    \A i, j \in 1..Len(dataJson) :
        i < j =>
           LET a == dataJson[i]
               b == dataJson[j]
           IN  /\ ~(~a._isOnline /\ b._isOnline)
               /\ (a._isOnline /\ b._isOnline) => Reported(a) >= Reported(b)
               /\ (~a._isOnline /\ ~b._isOnline)
                     => a._lastBroadcastEpoch >= b._lastBroadcastEpoch

\* two records the comparator does not tell apart
Tied(a, b) ==
    /\ a._isOnline = b._isOnline
    /\ a._isOnline => a._viewers = b._viewers
    /\ ~a._isOnline => a._lastBroadcastEpoch = b._lastBroadcastEpoch

\* the place of a record's platform in the order of concatenation
FetchOrder(record) ==
    CHOOSE k \in 1..Len(TrackerPlatforms) : TrackerPlatforms[k] = record.platform

DiskUsages == {90, 91}

\* creation times of the clip files that earlier jobs left: older and newer
Births == {1, 2}

\* creation time of the clips of the jobs in hand, after every leftover
BirthNow == 3

\* what the disk-space cron has seen and deleted, when it has not run since
\* the clips directory last gained a file
NoSweep == [usagePercent |-> 0, listing |-> <<>>, deleted |-> {}]

\* a clip is written for a job that the daily cleanup has since forgotten:
\* its file stays in the clips directory
LeaveClip(created) ==
    /\ Len(clipsDir) < MaxClips
    /\ clipsDir' = Append(clipsDir, created)
    /\ swept' = NoSweep
    /\ lastOp' = Op("leaveClip", 0, "none", 0, 0, "none")
    /\ emitted' = Emitted
    /\ UNCHANGED jobVarsButLast
    /\ UNCHANGED <<catalogVars, tempGone, apiKey, shutdown, parsed, sideVars>>

\* fs.readdirSync(clipsDir) with each file's birthtime: the leftover files
\* (job 0), then the clips of the jobs in hand
Listing ==
    LET n == Cardinality(clipFiles)
        nth(k) == CHOOSE j \in clipFiles : Cardinality({i \in clipFiles : i < j}) = k - 1
    IN  [i \in 1..Len(clipsDir) |-> [job |-> 0, created |-> clipsDir[i]]]
        \o [k \in 1..n |-> [job |-> nth(k), created |-> BirthNow]]

deleteCount_floor(n) == n \div 10

\* Math.ceil(clipFiles.length * 0.1), which is the integer ceiling of n / 10
\* for every n a directory can hold (the double product never rounds past
\* the next integer)
deleteCount(n) == (n + 9) \div 10

\* clipFiles.sort((a, b) => a.created - b.created): the positions of the
\* listing, oldest first; the sort is stable, so equal creation times keep
\* the listing's order
oldestFirst(listing) ==
    LET n == Len(listing)
        before(i, k) == \/ listing[i].created < listing[k].created
                        \/ listing[i].created = listing[k].created /\ i < k
        rank(k) == Cardinality({i \in 1..n : before(i, k)})
    IN  [r \in 1..n |-> CHOOSE k \in 1..n : rank(k) = r - 1]

\* the disk-space cron: above 90% it unlinks the first deleteCount files of
\* the sorted listing (each with its thumbnail); it looks at no job
DiskSweep(usagePercent) ==
    LET listing == Listing
        sorted == oldestFirst(listing)
        deleted == IF usagePercent > 90
                   THEN {sorted[r] : r \in 1..deleteCount(Len(listing))}
                   ELSE {}
        left == SelectSeq([i \in 1..Len(clipsDir) |-> IF i \in deleted THEN 0 ELSE clipsDir[i]],
                          LAMBDA c : c # 0)
    IN  /\ swept' = [usagePercent |-> usagePercent, listing |-> listing,
                     deleted |-> deleted]
        /\ clipsDir' = left
        /\ clipFiles' = clipFiles \ {listing[i].job : i \in deleted}
        /\ lastOp' = Op("diskSweep", 0, "none", 0, 0,
                        IF deleted = {} THEN "none" ELSE "deleted")
        /\ emitted' = Emitted
        /\ UNCHANGED <<jobs, registry, nextId, pc, previews, returnedId, now>>
        /\ UNCHANGED <<catalogVars, tempGone, apiKey, shutdown, parsed, sideVars>>

NextDisk ==
    \/ \E created \in Births : LeaveClip(created)
    \/ \E usagePercent \in DiskUsages : DiskSweep(usagePercent)

SpecDisk == Init /\ [][NextDisk]_vars

\* a day passes (once, after the clock's minute steps)
NextDay ==
    /\ now <= MaxTime
    /\ now + TickMinutes > MaxTime
    /\ now' = now + JobRetention
    /\ lastOp' = Op("tick", 0, "none", 0, 0, "day")
    /\ UNCHANGED <<jobs, registry, nextId, pc, previews, returnedId, clipFiles>>
    /\ emitted' = Emitted
    /\ UNCHANGED <<catalogVars, hostVars>>

\* now - stats.mtimeMs of a job's <id>_buffer.mp4: the capture transcoder
\* writes it for at most maxClipDuration seconds from the job's start, and a
\* file still being written is fresh
TempFileAge(j) ==
    IF pc[j] \in {"probe", "capture"} THEN 0 ELSE now - jobs[j].startTime

\* the daily cleanup cron: unlinks every file of the temp directory whose
\* mtime is more than 24 hours back, then removes the finished jobs that
\* started more than 24 hours ago from activeJobs
DailyCleanup ==
    LET oldFiles == {j \in JobIds : /\ jobs[j].outputFile
                                    /\ TempFileAge(j) > JobRetention}
        oldJobs == {j \in registry : /\ jobs[j].status \in RemovableStatuses
                                     /\ now - jobs[j].startTime > JobRetention}
    IN  /\ tempGone' = tempGone \cup oldFiles
        /\ registry' = registry \ oldJobs
        /\ lastOp' = Op("dailyCleanup", 0, "none", 0, 0,
                        IF oldFiles \cup oldJobs = {} THEN "none" ELSE "removed")
        /\ emitted' = Emitted
        /\ UNCHANGED <<jobs, nextId, pc, previews, returnedId, clipFiles, now>>
        /\ UNCHANGED <<catalogVars, clipsDir, swept, apiKey, shutdown, parsed, sideVars>>

\* capture and clip, which write the files, with the two crons that delete
\* files
NextGC ==
    \/ Tick
    \/ NextDay
    \/ \E req \in CaptureRequests, lookup \in CatalogLookups :
          CaptureRequest("http", req, lookup, Absent)
    \/ \E j \in JobIds, found \in BOOLEAN : ProbeDone(j, found)
    \/ \E j \in JobIds, outcome \in ExitOutcomes : CaptureExit(j, outcome)
    \/ \E j \in JobIds, r \in ClipRanges : HttpClip(j, r[1], r[2], FALSE)
    \/ \E j \in JobIds, outcome \in ExitOutcomes, partial \in BOOLEAN :
          ClipExit(j, outcome, partial)
    \/ \E j \in JobIds, outcome \in ExitOutcomes : ThumbnailExit(j, outcome)
    \/ DailyCleanup
    \/ \E usagePercent \in DiskUsages : DiskSweep(usagePercent)

SpecGC == Init /\ [][NextGC]_vars

\* the statuses after which a job changes no more
TerminalStatuses == {"completed", "error", "uploaded"}

\* a job whose files the retention rule protects: not finished, or started
\* (and so finished) less than 24 hours ago
Retained(j) ==
    /\ jobs[j].status # "absent"
    /\ \/ jobs[j].status \notin TerminalStatuses
       \/ now - jobs[j].startTime < JobRetention

\* C21: no sweep deletes a file of a job that is not terminal or became
\* terminal less than 24 hours ago: the clip a retained job names exists, and
\* so does the capture buffer of a retained job that was captured.
C21_RetainedFilesExist ==
    \A j \in JobIds :
        Retained(j) =>
            /\ jobs[j].clipFile => j \in clipFiles
            /\ jobs[j].outputFile => j \notin tempGone

\* C22: a disk sweep that read more than 90% deleted ceil(n / 10) of the n
\* clips it listed, none of them created after a clip it left; a sweep that
\* read 90% or less deleted nothing.
C22_OldestTenthDeleted ==
    LET n == Len(swept.listing)
        created(i) == swept.listing[i].created
        kept == (1..n) \ swept.deleted
        k == Cardinality(swept.deleted)
    IN  IF swept.usagePercent > 90
        THEN /\ 10 * k >= n
             /\ 10 * (k - 1) < n
             /\ \A d \in swept.deleted, s \in kept : created(d) <= created(s)
        ELSE swept.deleted = {}

\* a sweep above 90% over eleven clips: two are deleted, one of them as new
\* as a clip that stays
C22_Witness ==
    /\ swept.usagePercent > 90
    /\ Len(swept.listing) = 11
    /\ Cardinality(swept.deleted) = 2
    /\ \E d \in swept.deleted, s \in (1..11) \ swept.deleted :
          swept.listing[d].created = swept.listing[s].created

\* ---- the /api router ----

\* process.env.API_KEY
ConfiguredKey == "secret"

\* req.headers['x-api-key']: absent, empty, another key, the configured key
ApiKeys == {"undefined", "", "wrong", ConfiguredKey}

authMiddleware_missingOnly(key) ==
    IF key \in {"undefined", ""} THEN "Unauthorized" ELSE "next"

\* authMiddleware: 401 unless the header is there and equals the key
authMiddleware(key) ==
    IF key \in {"undefined", ""} \/ key # ConfiguredKey THEN "Unauthorized" ELSE "next"

\* a request for a path under /api reaches the router
ApiRequest(key) ==
    /\ apiKey' = key
    /\ lastOp' = Op("request", 0, "none", 0, 0, "none")
    /\ emitted' = Emitted
    /\ UNCHANGED jobVarsButLast
    /\ UNCHANGED <<catalogVars, clipsDir, tempGone, swept, shutdown, parsed, sideVars>>

\* authMiddleware answers the request 401 and does not call next()
Unauthorized ==
    /\ apiKey # "none"
    /\ authMiddleware(apiKey) = "Unauthorized"
    /\ lastOp' = Op("api", 0, "http", 0, 0, "Unauthorized")
    /\ emitted' = Emitted
    /\ UNCHANGED jobVarsButLast
    /\ UNCHANGED <<catalogVars, hostVars>>

\* authMiddleware calls next(): the route's handler runs
Admitted == apiKey # "none" /\ authMiddleware(apiKey) = "next"

ApiCapture(req, lookup) == Admitted /\ CaptureRequest("http", req, lookup, Absent)

ApiClip(j, startTime, duration) == Admitted /\ HttpClip(j, startTime, duration, FALSE)

ApiDeleteClip(j) == Admitted /\ DeleteClip(j)

ApiRefresh == Admitted /\ StartRefresh("http")

\* the routes that create, change or delete something, behind authMiddleware,
\* with the callbacks that carry a job to its clip
NextApi ==
    \/ \E key \in ApiKeys : ApiRequest(key)
    \/ Unauthorized
    \/ \E req \in CaptureRequests, lookup \in CatalogLookups : ApiCapture(req, lookup)
    \/ \E j \in JobIds, r \in ClipRanges : ApiClip(j, r[1], r[2])
    \/ \E j \in JobIds : ApiDeleteClip(j)
    \/ ApiRefresh
    \/ \E j \in JobIds, found \in BOOLEAN : ProbeDone(j, found)
    \/ \E j \in JobIds, outcome \in ExitOutcomes : CaptureExit(j, outcome)
    \/ \E j \in JobIds, outcome \in ExitOutcomes, partial \in BOOLEAN :
          ClipExit(j, outcome, partial)
    \/ \E j \in JobIds, outcome \in ExitOutcomes : ThumbnailExit(j, outcome)

SpecApi == Init /\ [][NextApi]_vars

\* the headers authMiddleware must refuse
BadKeys == ApiKeys \ {ConfiguredKey}

Signal(connected) ==
    /\ shutdown # "exited"
    /\ shutdown' = IF shutdown = "running"
                   THEN (IF connected THEN "closing" ELSE "draining")
                   ELSE shutdown
    /\ lastOp' = Op("signal", 0, "none", 0, 0, shutdown')
    /\ emitted' = Emitted
    /\ UNCHANGED jobVarsButLast
    /\ UNCHANGED <<catalogVars, clipsDir, tempGone, swept, apiKey, parsed, sideVars>>

\* browser.close() resolves: the handler goes on to server.close and the
\* timer
BrowserClosed ==
    /\ shutdown = "closing"
    /\ shutdown' = "draining"
    /\ lastOp' = Op("browserClosed", 0, "none", 0, 0, "none")
    /\ emitted' = Emitted
    /\ UNCHANGED jobVarsButLast
    /\ UNCHANGED <<catalogVars, clipsDir, tempGone, swept, apiKey, parsed, sideVars>>

\* the last connection has ended: server.close's callback, process.exit(0)
ServerClosed ==
    /\ shutdown = "draining"
    /\ shutdown' = "exited"
    /\ lastOp' = Op("exit", 0, "none", 0, 0, "0")
    /\ emitted' = Emitted
    /\ UNCHANGED jobVarsButLast
    /\ UNCHANGED <<catalogVars, clipsDir, tempGone, swept, apiKey, parsed, sideVars>>

\* the ten-second timer: process.exit(1)
ForceExit ==
    /\ shutdown = "draining"
    /\ shutdown' = "exited"
    /\ lastOp' = Op("exit", 0, "none", 0, 0, "1")
    /\ emitted' = Emitted
    /\ UNCHANGED jobVarsButLast
    /\ UNCHANGED <<catalogVars, clipsDir, tempGone, swept, apiKey, parsed, sideVars>>

\* the process has not exited: its handlers and callbacks still run (the
\* connections that are open keep sending requests)
Alive == shutdown # "exited"

AliveTick == Alive /\ Tick

AliveCaptureRequest(via, req, lookup) ==
    Alive /\ CaptureRequest(via, req, lookup, Absent)

AliveProbeDone(j, found) == Alive /\ ProbeDone(j, found)

AliveCaptureExit(j, outcome) == Alive /\ CaptureExit(j, outcome)

\* capture, while the process lives, and the shutdown
NextShutdown ==
    \/ AliveTick
    \/ \E via \in Vias, req \in CaptureRequests, lookup \in CatalogLookups :
          AliveCaptureRequest(via, req, lookup)
    \/ \E j \in JobIds, found \in BOOLEAN : AliveProbeDone(j, found)
    \/ \E j \in JobIds, outcome \in ExitOutcomes : AliveCaptureExit(j, outcome)
    \/ \E connected \in BOOLEAN : Signal(connected)
    \/ BrowserClosed
    \/ ServerClosed
    \/ ForceExit

\* the timer fires once it is set; nothing makes browser.close() settle or
\* the connections end
SpecShutdown == Init /\ [][NextShutdown]_vars /\ WF_vars(ForceExit)

\* C24: a signal that arrives while a job's capture transcoder runs kills
\* the transcoder and moves the job to error with the reason cancelled; a
\* signal that finds no capture running changes no job.
C24_SignalCancelsCapture ==
    [][(lastOp'.op = "signal") =>
         \A j \in JobIds :
            IF pc[j] = "capture"
            THEN /\ pc'[j] = "idle"
                 /\ jobs'[j].status = "error"
                 /\ jobs'[j].error = "cancelled"
            ELSE jobs'[j] = jobs[j]
      ]_vars

\* C29: once a signal has arrived the process exits in the end.
C29_AlwaysExits == (shutdown # "running") ~> (shutdown = "exited")

\* ---- the viewer-count parsers ----

\* the characters of a scraped viewer text
Alphabet == {"1", "5", ".", ",", "k", "K", "m", "a", "-", " "}

Digits == {"1", "5"}

\* a JavaScript number: NaN, or the rational num / den.  The texts are at
\* most five characters long, and for those the double product and its floor
\* equal the exact ones.
NaN == [nan |-> TRUE, num |-> 0, den |-> 1]

Number(n) == [nan |-> FALSE, num |-> n, den |-> 1]

toLowerCase(text) == [i \in 1..Len(text) |-> IF text[i] = "K" THEN "k" ELSE text[i]]

\* text.replace(/c/g, '')
replaceAll(text, c) == SelectSeq(text, LAMBDA x : x # c)

includes(text, c) == \E i \in 1..Len(text) : text[i] = c

\* text.replace('c', ''): the first occurrence only
replace(text, c) ==
    IF ~includes(text, c) THEN text
    ELSE LET i == CHOOSE i \in 1..Len(text) :
                     text[i] = c /\ \A k \in 1..(i - 1) : text[k] # c
         IN  SubSeq(text, 1, i - 1) \o SubSeq(text, i + 1, Len(text))

trim(text) ==
    LET inked == {i \in 1..Len(text) : text[i] # " "}
    IN  IF inked = {} THEN <<>>
        ELSE SubSeq(text, CHOOSE i \in inked : \A k \in inked : i <= k,
                          CHOOSE i \in inked : \A k \in inked : i >= k)

\* the digits a text starts with
leadingDigits(text) ==
    LET n == CHOOSE n \in 0..Len(text) :
                 /\ \A i \in 1..n : text[i] \in Digits
                 /\ n = Len(text) \/ text[n + 1] \notin Digits
    IN  SubSeq(text, 1, n)

RECURSIVE digitsValue(_)
digitsValue(digits) ==
    IF digits = <<>> THEN 0
    ELSE 10 * digitsValue(SubSeq(digits, 1, Len(digits) - 1))
         + (IF digits[Len(digits)] = "1" THEN 1 ELSE 5)

\* the decimal literal a text starts with, after white space and a sign:
\* digits, and for parseFloat a point and more digits; NaN when there is no
\* digit
parseDecimal(text, fraction) ==
    LET inked == {i \in 1..Len(text) : text[i] # " "}
        s0 == IF inked = {} THEN <<>>
              ELSE SubSeq(text, CHOOSE i \in inked : \A k \in inked : i <= k, Len(text))
        neg == s0 # <<>> /\ s0[1] = "-"
        s1 == IF neg THEN Tail(s0) ELSE s0
        ip == leadingDigits(s1)
        rest == SubSeq(s1, Len(ip) + 1, Len(s1))
        fp == IF fraction /\ rest # <<>> /\ rest[1] = "."
              THEN leadingDigits(Tail(rest)) ELSE <<>>
        den == 10 ^ Len(fp)
        abs == digitsValue(ip) * den + digitsValue(fp)
    IN  IF ip = <<>> /\ fp = <<>> THEN NaN
        ELSE [nan |-> FALSE, num |-> IF neg THEN 0 - abs ELSE abs, den |-> den]

parseFloat(text) == parseDecimal(text, TRUE)

\* parseInt(text, 10)
parseInt(text) == parseDecimal(text, FALSE)

times(x, k) == IF x.nan THEN NaN ELSE [x EXCEPT !.num = @ * k]

\* Math.floor
floor(x) == IF x.nan THEN NaN ELSE Number(x.num \div x.den)

\* parseInt of a number: its integer part, towards zero
truncate(x) ==
    IF x.nan THEN NaN
    ELSE IF x.num >= 0 THEN Number(x.num \div x.den)
    ELSE Number(0 - ((0 - x.num) \div x.den))

\* x || 0
orZero(x) == IF x.nan \/ x.num = 0 THEN Number(0) ELSE x

\* backend.js
parseViewerCount(text) ==
    IF text = <<>> THEN Number(0)
    ELSE LET t == trim(replaceAll(toLowerCase(text), ","))
         IN  IF includes(t, "k") THEN floor(times(parseFloat(replace(t, "k")), 1000))
             ELSE IF includes(t, "m")
             THEN floor(times(parseFloat(replace(t, "m")), 1000000))
             ELSE orZero(parseInt(t))

\* the tracker's fetchers
parseViewers(text) ==
    LET t == trim(replace(toLowerCase(text), ","))
    IN  IF includes(t, "k") THEN truncate(times(parseFloat(replace(t, "k")), 1000))
        ELSE IF includes(t, "m")
        THEN truncate(times(parseFloat(replace(t, "m")), 1000000))
        ELSE parseInt(t)

\* a fetcher reads a viewer text, one character longer than the last, and
\* parses it
ParseText(c) ==
    LET text == Append(parsed.text, c)
    IN  /\ Len(parsed.text) < MaxLen
        /\ parsed' = [text |-> text, count |-> parseViewerCount(text),
                      viewers |-> parseViewers(text)]
        /\ lastOp' = Op("parse", 0, "none", 0, 0, "none")
        /\ emitted' = Emitted
        /\ UNCHANGED jobVarsButLast
        /\ UNCHANGED <<catalogVars, clipsDir, tempGone, swept, apiKey, shutdown, sideVars>>

NextParse == \E c \in Alphabet : ParseText(c)

SpecParse == Init /\ [][NextParse]_vars

\* C25: parseViewerCount returns a non-negative integer for every text,
\* never NaN, and 0 for a text that is a suffix with no number.
C25_CountIsNonNegativeInteger ==
    /\ ~parsed.count.nan
    /\ parsed.count.den = 1
    /\ parsed.count.num >= 0
    /\ parsed.text \in {<<"k">>, <<"m">>} => parsed.count.num = 0

\* ---- failures that must or must not fail a job ----

\* the message of captureStreamSegment when no stream URL was found
ResolveFailure == "Could not find stream URL"

\* C26: when the catalog had no stream URL and the browser probe returns
\* none, the capturing job moves to error with the reason that no stream URL
\* was found, and no transcoder and no further probe is ever started for it.
C26_ResolveFailureFailsJob ==
    [][/\ (lastOp'.op = "probe" /\ lastOp'.outcome = "not_found")
            => (/\ pc[lastOp'.id] = "probe"
                /\ jobs'[lastOp'.id].status = "error"
                /\ jobs'[lastOp'.id].error = ResolveFailure
                /\ ~jobs'[lastOp'.id].streamUrl
                /\ pc'[lastOp'.id] = "idle")
       /\ \A j \in JobIds : (jobs[j].error = ResolveFailure) => (pc'[j] = "idle")
      ]_vars

\* a probe has returned nothing and its job is in error for that reason
C26_Witness ==
    /\ lastOp.op = "probe"
    /\ lastOp.outcome = "not_found"
    /\ jobs[lastOp.id].status = "error"
    /\ jobs[lastOp.id].error = ResolveFailure
    /\ pc[lastOp.id] = "idle"

\* C27: once the clip transcoder has exited with code 0, the step in which
\* the thumbnail settles leaves the job completed at progress 100 with its
\* clip path stored, whether the thumbnail was made or not; the thumbnail
\* path is stored only when it was made.
C27_ThumbnailNeverFailsClip ==
    [][(lastOp'.op = "thumbnailExit") =>
          (/\ pc[lastOp'.id] = "thumbnail"
           /\ jobs'[lastOp'.id].status = "completed"
           /\ jobs'[lastOp'.id].progress = 100
           /\ jobs'[lastOp'.id].clipFile
           /\ jobs'[lastOp'.id].error = jobs[lastOp'.id].error
           /\ (lastOp'.outcome # "ok")
                => (jobs'[lastOp'.id].thumbnailFile = jobs[lastOp'.id].thumbnailFile))
      ]_vars

\* a thumbnail has failed and its job is completed with a clip and no
\* thumbnail
C27_Witness ==
    /\ lastOp.op = "thumbnailExit"
    /\ lastOp.outcome # "ok"
    /\ jobs[lastOp.id].status = "completed"
    /\ jobs[lastOp.id].clipFile
    /\ ~jobs[lastOp.id].thumbnailFile

\* C28: neither the start of generatePreviewFrames nor the exit of its
\* transcoder, with code 0 or not, changes any field of any job other than
\* the preview-frame list of the job it works on.
C28_PreviewLeavesStatus ==
    [][(lastOp'.op \in {"preview", "previewExit"}) =>
          \A j \in JobIds :
             /\ [jobs'[j] EXCEPT !.previewFrames = FALSE]
                  = [jobs[j] EXCEPT !.previewFrames = FALSE]
             /\ j # lastOp'.id => jobs'[j] = jobs[j]
      ]_vars

\* a preview transcoder has failed on a captured job, which is captured still
C28_Witness ==
    /\ lastOp.op = "previewExit"
    /\ lastOp.outcome # "ok"
    /\ jobs[lastOp.id].status = "captured"
    /\ ~jobs[lastOp.id].previewFrames

\* C30: the stall sweep leaves a job untouched whose status changed less
\* than 30 minutes ago: a sweep that runs right after a request has moved a
\* job to processing or uploading (the clock has not moved since) does not
\* change that job.
C30_RecentJobNotSwept ==
    [][(/\ lastOp'.op = "stallSweep"
        /\ lastOp.op \in {"createClip", "uploadClip"}
        /\ lastOp.outcome \in {"spawned", "posted"})
          => jobs'[lastOp.id] = jobs[lastOp.id]
      ]_vars

\* ---- progress reports and the capture duration ----

\* seconds of output the transcoder reports in a time= line of its stderr,
\* and units sent that the upload reports; every percentage of them below is
\* a whole number
Positions == {0, 60, 120}

\* progressEvent.total of the upload
UploadTotal == 120

\* part / whole * 100; a whole below zero is met only with part 0
Percent(part, whole) ==
    IF whole > 0 THEN (part * 100) \div whole ELSE 0 - ((part * 100) \div (0 - whole))

progressPercent_unclamped(position, whole) == Percent(position, whole)

\* Math.min(100, (totalSeconds / maxDuration) * 100) of the capture and
\* Math.min(100, (currentTime / totalDuration) * 100) of the clip
progressPercent(position, whole) == Min(100, Percent(position, whole))

\* Math.round((progressEvent.loaded * 100) / progressEvent.total)
percentCompleted(loaded, total) == Percent(loaded, total)

\* what a transcoder or an upload may report next: its positions never go
\* back while it runs
MayReport(j, work, position) ==
    /\ pc[j] = work
    /\ reported[j].work = work => position >= reported[j].at

\* the capture transcoder's stderr handler on a time= line.  A transcoder
\* told to record for no time or less stops at its first packet and reports
\* no position past 0.
CaptureProgress(j, totalSeconds) ==
    /\ MayReport(j, "capture", totalSeconds)
    /\ jobs[j].maxDuration <= 0 => totalSeconds = 0
    /\ reported' = [reported EXCEPT ![j] = [work |-> "capture", at |-> totalSeconds]]
    /\ jobs' = IF j \in registry
               THEN [jobs EXCEPT ![j].progress =
                                    progressPercent(totalSeconds, jobs[j].maxDuration)]
               ELSE jobs
    /\ lastOp' = Op("captureProgress", j, "none", 0, 0, "none")
    /\ emitted' = Emitted
    /\ UNCHANGED <<registry, nextId, pc, previews, returnedId, clipFiles, now>>
    /\ UNCHANGED <<catalogVars, clipsDir, tempGone, swept, apiKey, shutdown, parsed,
                   twitch, chromium>>

\* the clip transcoder's stderr handler on a chunk with a Duration: and a
\* time= line; the Duration: of its input is the length of the capture buffer,
\* and an empty buffer gives no such chunk
ClipProgress(j, currentTime) ==
    /\ MayReport(j, "clip", currentTime)
    /\ jobs[j].maxDuration > 0
    /\ reported' = [reported EXCEPT ![j] = [work |-> "clip", at |-> currentTime]]
    /\ jobs' = IF j \in registry
               THEN [jobs EXCEPT ![j].progress =
                                    progressPercent(currentTime, jobs[j].maxDuration)]
               ELSE jobs
    /\ lastOp' = Op("clipProgress", j, "none", 0, 0, "none")
    /\ emitted' = Emitted
    /\ UNCHANGED <<registry, nextId, pc, previews, returnedId, clipFiles, now>>
    /\ UNCHANGED <<catalogVars, clipsDir, tempGone, swept, apiKey, shutdown, parsed,
                   twitch, chromium>>

\* onUploadProgress of the POST to the upload host: writes the job object
\* uploadClip holds and stores it under its id
UploadProgress(j, loaded) ==
    /\ MayReport(j, "upload", loaded)
    /\ loaded <= UploadTotal
    /\ reported' = [reported EXCEPT ![j] = [work |-> "upload", at |-> loaded]]
    /\ jobs' = [jobs EXCEPT ![j].progress = percentCompleted(loaded, UploadTotal)]
    /\ registry' = registry \cup {j}
    /\ lastOp' = Op("uploadProgress", j, "none", 0, 0, "none")
    /\ emitted' = Emitted
    /\ UNCHANGED <<nextId, pc, previews, returnedId, clipFiles, now>>
    /\ UNCHANGED <<catalogVars, clipsDir, tempGone, swept, apiKey, shutdown, parsed,
                   twitch, chromium>>

\* capture, clip and upload with the reports of their progress, every
\* maxDuration a capture request may carry, and the stalled-jobs cron
NextProgress ==
    \/ Tick
    \/ \E req \in CaptureRequests, lookup \in CatalogLookups,
          maxDuration \in MaxDurations :
          CaptureRequest("http", req, lookup, maxDuration)
    \/ \E j \in JobIds, found \in BOOLEAN : ProbeDone(j, found)
    \/ \E j \in JobIds, totalSeconds \in Positions : CaptureProgress(j, totalSeconds)
    \/ \E j \in JobIds, outcome \in ExitOutcomes : CaptureExit(j, outcome)
    \/ \E j \in JobIds, r \in ClipRanges : HttpClip(j, r[1], r[2], FALSE)
    \/ \E j \in JobIds, currentTime \in Positions : ClipProgress(j, currentTime)
    \/ \E j \in JobIds, outcome \in ExitOutcomes, partial \in BOOLEAN :
          ClipExit(j, outcome, partial)
    \/ \E j \in JobIds, outcome \in ExitOutcomes : ThumbnailExit(j, outcome)
    \/ \E j \in JobIds : HttpUpload(j)
    \/ \E j \in JobIds, loaded \in Positions : UploadProgress(j, loaded)
    \/ \E j \in JobIds, response \in UploadOutcomes : UploadResponse(j, response)
    \/ StallSweep

SpecProgress == Init /\ [][NextProgress]_vars

\* C31: while a job stays in one status its progress never decreases, and
\* the progress of every job is between 0 and 100 at all times.
C31_ProgressMonotoneInRange ==
    /\ [](\A j \in JobIds : jobs[j].progress >= 0 /\ jobs[j].progress <= 100)
    /\ [][\A j \in JobIds :
            (jobs'[j].status = jobs[j].status)
               => (jobs'[j].progress >= jobs[j].progress)]_vars

\* a capture asked to record 60 seconds has reported 120 and stands at 100,
\* still capturing
C31_Witness ==
    /\ lastOp.op = "captureProgress"
    /\ jobs[lastOp.id].status = "capturing"
    /\ jobs[lastOp.id].maxDuration = 60
    /\ reported[lastOp.id].at = 120
    /\ jobs[lastOp.id].progress = 100

\* C40: whatever maxDuration a capture request carries, the duration the
\* capture transcoder is spawned with is above 0 and at most maxClipDuration.
C40_CaptureDurationInRange ==
    \A j \in JobIds :
       pc[j] = "capture"
          => (jobs[j].maxDuration > 0 /\ jobs[j].maxDuration <= maxClipDuration)

\* ---- the stream URL of a capture ----

\* C37: a capture whose streamer has a stream URL in the persisted catalog
\* spawns the transcoder with that URL and the browser probe never runs for
\* its job; the probe runs only for a job that has no stream URL.
C37_CachedUrlSkipsProbe ==
    [][/\ (lastOp'.op = "capture" /\ lastOp'.outcome = "started")
            => (jobs'[lastOp'.id + 1].streamUrl => pc'[lastOp'.id + 1] = "capture")
       /\ (lastOp'.op = "probe")
            => (pc[lastOp'.id] = "probe" /\ ~jobs[lastOp'.id].streamUrl)
       /\ \A j \in JobIds : (pc'[j] = "probe") => ~jobs'[j].streamUrl
      ]_vars

\* a capture has just started on a cached stream URL: its transcoder runs
\* and no probe does
C37_Witness ==
    /\ lastOp.op = "capture"
    /\ lastOp.outcome = "started"
    /\ jobs[lastOp.id + 1].status = "capturing"
    /\ jobs[lastOp.id + 1].streamUrl
    /\ pc[lastOp.id + 1] = "capture"

\* ---- a clip request with an invalid range ----

\* what the handlers answer when they refuse a request for a job in error
ErrorRejections ==
    {"Missing required parameters", "Cannot create clip", "Cannot generate preview",
     "Cannot upload clip"}

\* C39: when createClip rejects a request on a captured job for its range,
\* the job moves to error and no transcoder is spawned; from then on the job
\* stays in error, and every clip, preview and upload request for it is
\* refused by the handler and starts nothing.
C39_RangeRejectionIsFinal ==
    [][/\ (lastOp'.op = "createClip" /\ lastOp'.outcome \in RangeErrors)
            => (/\ jobs[lastOp'.id].status = "captured"
                /\ jobs'[lastOp'.id].status = "error"
                /\ jobs'[lastOp'.id].error = lastOp'.outcome
                /\ pc'[lastOp'.id] = "idle")
       /\ \A j \in registry :
             (jobs[j].error \in RangeErrors)
                => (/\ jobs'[j].status = "error"
                    /\ jobs'[j].error = jobs[j].error
                    /\ pc'[j] = "idle"
                    /\ (j \in previews' => j \in previews)
                    /\ (lastOp'.id = j
                          /\ lastOp'.op \in {"createClip", "preview", "uploadClip"})
                         => (lastOp'.outcome \in ErrorRejections))
      ]_vars

\* an upload request has just been refused for a job that a range error
\* had failed
C39_Witness ==
    /\ lastOp.op = "uploadClip"
    /\ lastOp.outcome = "Cannot upload clip"
    /\ lastOp.id \in registry
    /\ jobs[lastOp.id].status = "error"
    /\ jobs[lastOp.id].error \in RangeErrors

\* ---- jobs that left the registry ----

\* C38: a job that has been removed from the registry never comes back
\* under its id: no step puts a job that has existed and is out of the
\* registry into it again.
C38_RemovedJobStaysRemoved ==
    [][\A j \in JobIds :
          (j \notin registry /\ jobs[j].status # "absent") => (j \notin registry')
      ]_vars

\* ---- jobs that enter the registry ----

\* C32: every job that enters the registry enters it as initializing, and
\* the step that registers it publishes job_created for it, over HTTP and
\* over the socket alike.
C32_NewJobIsAnnounced ==
    [][\A j \in registry' \ registry :
          /\ jobs'[j].status = "initializing"
          /\ <<j, "initializing">> \in emitted'
      ]_vars

\* ---- the daily cleanup of the registry ----

ClockStep == 30

\* expires_in of a token response, seconds: under the margin, the margin,
\* above it
Lifetimes == {30, 60, 120}

\* everything but the token cache
allButTwitch ==
    <<jobVars, catalogVars, clipsDir, tempGone, swept, apiKey, shutdown, parsed,
      reported, chromium>>

TrackerTick ==
    /\ twitch.clock + ClockStep <= MaxSeconds
    /\ twitch' = [twitch EXCEPT !.clock = @ + ClockStep,
                                !.call = [op |-> "tick", requested |-> FALSE,
                                          returned |-> 0]]
    /\ UNCHANGED allButTwitch

twitchTokenExpiry_noMargin(clock, expires_in) == clock + expires_in

\* Date.now() + (response.data.expires_in * 1000) - 60000
twitchTokenExpiry(clock, expires_in) == clock + expires_in - RefreshMargin

\* getTwitchAccessToken up to its await: returns the cached token while it
\* is valid, and sends the token request otherwise
getTwitchAccessToken ==
    /\ IF twitch.accessToken # 0 /\ twitch.clock < twitch.expiry
       THEN twitch' = [twitch EXCEPT !.call = [op |-> "call", requested |-> FALSE,
                                               returned |-> twitch.accessToken]]
       ELSE /\ twitch.pending < MaxPending
            /\ twitch' = [twitch EXCEPT !.pending = @ + 1,
                                        !.call = [op |-> "call", requested |-> TRUE,
                                                  returned |-> 0]]
    /\ UNCHANGED allButTwitch

\* the token request succeeds: the token and its expiry are cached and the
\* token is returned
TokenGranted(expires_in) ==
    /\ twitch.pending > 0
    /\ twitch.issued < MaxTokens
    /\ twitch' = [twitch EXCEPT
                     !.pending = @ - 1,
                     !.issued = @ + 1,
                     !.accessToken = twitch.issued + 1,
                     !.expiry = twitchTokenExpiry(twitch.clock, expires_in),
                     !.expiresAt = twitch.clock + expires_in,
                     !.call = [op |-> "granted", requested |-> FALSE,
                               returned |-> twitch.issued + 1]]
    /\ UNCHANGED allButTwitch

\* the token request fails: the catch block returns null and leaves the
\* cache as it is
TokenRefused ==
    /\ twitch.pending > 0
    /\ twitch' = [twitch EXCEPT !.pending = @ - 1,
                                !.call = [op |-> "refused", requested |-> FALSE,
                                          returned |-> 0]]
    /\ UNCHANGED allButTwitch

NextToken ==
    \/ TrackerTick
    \/ getTwitchAccessToken
    \/ \E expires_in \in Lifetimes : TokenGranted(expires_in)
    \/ TokenRefused

SpecToken == Init /\ [][NextToken]_vars

\* C34: a call of getTwitchAccessToken sends a token request exactly when
\* no token is cached or the time is at or past the token's expiry minus 60
\* seconds; otherwise it sends none and returns the cached token; a failed
\* token request returns no token.
C34_TokenRequestedWhenStale ==
    [][/\ (twitch'.call.op = "call")
            => (/\ twitch'.call.requested
                     <=> (twitch.accessToken = 0
                           \/ twitch.clock >= twitch.expiresAt - 60)
                /\ twitch'.call.requested => (twitch'.pending = twitch.pending + 1)
                /\ (~twitch'.call.requested)
                     => (/\ twitch'.pending = twitch.pending
                         /\ twitch'.call.returned = twitch.accessToken
                         /\ twitch'.call.returned # 0))
       /\ (twitch'.call.op = "refused") => (twitch'.call.returned = 0)
      ]_vars

\* a token request has just failed while an expired token is in the cache,
\* and the call returned none
C34_Witness ==
    /\ twitch.call.op = "refused"
    /\ twitch.accessToken # 0
    /\ twitch.clock >= twitch.expiresAt - 60
    /\ twitch.call.returned = 0

\* ---- the headless browser ----

\* the operations that use the browser, each run once
Operations == 1..MaxOps

\* the server's startup (initBrowser alone), a stream-URL probe
\* (getStreamUrlWithBrowser) and a platform scrape (fetchKickStreamers)
OperationKinds == {"startup", "probe", "kick"}

\* everything but the browser
allButChromium ==
    <<jobVars, catalogVars, clipsDir, tempGone, swept, apiKey, shutdown, parsed,
      reported, twitch>>

\* browser && browser.isConnected()
Connected == chromium.browser # 0 /\ chromium.browser \in chromium.live

\* the operation o goes on with the browser b that initBrowser returned: the
\* startup is done, a probe and a scrape open their page
WithBrowser(c, o, kind, b) ==
    IF kind = "startup"
    THEN [c EXCEPT !.stage[o] = [kind |-> kind, at |-> "returned"]]
    ELSE [c EXCEPT !.stage[o] = [kind |-> kind, at |-> "page"],
                   !.pages = @ \cup {[op |-> o, browser |-> b]}]

\* an operation starts and calls initBrowser, which returns the browser at
\* hand when it is connected and awaits puppeteer.launch otherwise
initBrowser(o, kind) ==
    /\ chromium.stage[o].at = "idle"
    /\ IF Connected
       THEN chromium' = WithBrowser(chromium, o, kind, chromium.browser)
       ELSE /\ chromium.launched
                 + Cardinality({p \in Operations : chromium.stage[p].at = "launching"})
                 < MaxLaunches
            /\ chromium' = [chromium EXCEPT
                              !.stage[o] = [kind |-> kind, at |-> "launching"]]
    /\ UNCHANGED allButChromium

\* puppeteer.launch settles for the operation that awaits it: the new
\* browser is stored in the browser variable, or the launch throws into the
\* operation's catch block
LaunchSettled(o, ok) ==
    /\ chromium.stage[o].at = "launching"
    /\ IF ok
       THEN LET b == chromium.launched + 1
                c == [chromium EXCEPT !.launched = b, !.live = @ \cup {b},
                                      !.browser = b]
            IN  chromium' = WithBrowser(c, o, chromium.stage[o].kind, b)
       ELSE chromium' = [chromium EXCEPT !.stage[o].at = "returned"]
    /\ UNCHANGED allButChromium

\* the work on the page ends.  getStreamUrlWithBrowser closes its page on
\* the way to its return and not in its catch block; fetchKickStreamers
\* returns, from its try or its catch block, without closing its page
PageWorkEnds(o, throws) ==
    /\ chromium.stage[o].at = "page"
    /\ chromium' = [chromium EXCEPT
                       !.stage[o].at = "returned",
                       !.pages = IF chromium.stage[o].kind = "probe" /\ ~throws
                                 THEN {p \in @ : p.op # o}
                                 ELSE @]
    /\ UNCHANGED allButChromium

\* a browser process dies or loses its connection: its pages go with it
Disconnected(b) ==
    /\ b \in chromium.live
    /\ chromium' = [chromium EXCEPT !.live = @ \ {b},
                                    !.pages = {p \in @ : p.browser # b}]
    /\ UNCHANGED allButChromium

NextBrowser ==
    \/ \E o \in Operations, kind \in OperationKinds : initBrowser(o, kind)
    \/ \E o \in Operations, ok \in BOOLEAN : LaunchSettled(o, ok)
    \/ \E o \in Operations, throws \in BOOLEAN : PageWorkEnds(o, throws)
    \/ \E b \in 1..MaxLaunches : Disconnected(b)

SpecBrowser == Init /\ [][NextBrowser]_vars

\* C35: at most one browser process is live at any time: operations that
\* call initBrowser while no browser is connected share one launch.
C35_OneLiveBrowser == Cardinality(chromium.live) <= 1

\* C36: whenever no operation is running, no page is open: every page an
\* operation opened is closed by the time it returns.
C36_NoPageLeftOpen ==
    (\A o \in Operations : chromium.stage[o].at \in {"idle", "returned"})
       => (chromium.pages = {})
====
